---- MODULE Spec2Model ----
(***************************************************************************)
(* Focus Royale: the biometric scoring pipeline of the App component       *)
(* (src/unnamed/part_007, the last App version, lines 2096-2966), the      *)
(* Presage orchestrator (src/services/presageMockService.ts, lines 95-278) *)
(* and the Gemini adapter (src/services/geminiService.ts).  Beside them:   *)
(* the frame relay (src/backend/server.js), the signal processor of the    *)
(* visualisation server (src/server) and the session timer and vision loop *)
(* of two earlier App versions kept in src/unnamed/part_007.               *)
(*                                                                         *)
(* Numbers.  Scores are kept in tenths (flowScore 1000 is 10000), health   *)
(* in hundredths (100 is 10000).  Money is kept in quanta: one stake unit  *)
(* is MoneyScale quanta, chosen so that the per-tick penalty increment and *)
(* the per-winner bonus are whole numbers and the divisions of the code    *)
(* are exact.  Time is kept in milliseconds and advances in steps of       *)
(* TimeStep; the code only ever compares differences Date.now() - t with   *)
(* constants, so the model keeps those differences (ages), saturated.      *)
(***************************************************************************)
EXTENDS Integers, Sequences, FiniteSets, TLC

VARIABLES
    gameState,          \* useState<GameState>
    stakeAmount,        \* useState<number>, in quanta
    players,            \* useState<Player[]>
    penalties,          \* useState<Record<string, number>>
    payouts,            \* useState<Record<string, number> | null>
    sessionAge,         \* Date.now() - sessionStartTime, saturated
    ticks,              \* ticks of the game loop so far
    tickTimer,          \* the game loop's setInterval is set
    tickAge,            \* time since the interval last fired
    selfBiometrics,     \* useState<BiometricData>: its distractionType
    forcedDistraction,  \* presageMockService: developer override
    currentDistraction, \* presageMockService: committed label
    candidateType,      \* presageMockService: candidate label
    candidateAge,       \* Date.now() - candidateSinceMs, saturated
    isProcessingVision, \* useState(false)
    capturedProcessing, \* isProcessingVision as captured by the effect closure
    isMounted,          \* the vision effect's isMounted flag
    timerLeft,          \* time left on the vision timeout, -1 when none
    nextDelay,          \* the delay last handed to setTimeout
    inFlight,           \* oracle calls awaited by the mounted vision effect
    orphans,            \* oracle calls awaited by effects already cleaned up
    remoteEnabled,      \* REMOTE_BACKEND_ENABLED
    socket,             \* socketService.socket: "none", "down" or "up"
    isRemoteActive,     \* presageMockService: isRemoteActive
    geminiAge,          \* Date.now() - lastGeminiRunMs, saturated
    sampleAge,          \* time since the smoother was last fed, saturated
    oscN,               \* history: length of the current run of alternating raw labels
    oscPair,            \* history: the labels of that run
    oscStart,           \* history: the committed label before that run
    tabFocused,         \* document.visibilityState === 'visible'
    tickGap,            \* history: time since the interval was set or last fired, measured in TickSpec
    neutralAge,         \* history: time since the first sample of the current run of neutral raw labels, -1 when the last raw label was not neutral
    relay,              \* server.js, the closure of one connection: isProcessing, latestPending, the processFrame calls made (jobs), and as history the stream_frame events received and the last of them that carried a payload object
    processor,          \* src/server: the SignalProcessor (activationHistory, in tenths), and as history the number of processSignals calls, the window a processor of its own would hold for each client (own), and the last reply sent
    legacy              \* App of lines 699-1311: lastDetectionRef.current, the state handed to setAIState, and as history the oracle's last answer

appVars == <<gameState, stakeAmount, players, penalties, payouts, sessionAge, ticks, tickTimer, tickAge, selfBiometrics>>
smootherVars == <<forcedDistraction, currentDistraction, candidateType, candidateAge>>
loopVars == <<isProcessingVision, capturedProcessing, isMounted, timerLeft, nextDelay, inFlight, orphans>>
remoteVars == <<remoteEnabled, socket, isRemoteActive, geminiAge>>
smoothHist == <<sampleAge, oscN, oscPair, oscStart, neutralAge>>
sideVars == <<relay, processor, legacy>>
oscVars == <<smoothHist, tickGap, tabFocused, sideVars>>
vars == <<appVars, smootherVars, loopVars, remoteVars, oscVars>>

----------------------------------------------------------------------------
(* Bounds of the model *)

\* ticks of the game loop explored in one behaviour
MaxTicks == 2
\* largest stake, in stake units: the staking form is given 0 or MaxStake
\* units, and the form opens with one unit in it
MaxStake == 1
\* minimum session length in tick periods (the code: 600 = 1 minute / 100 ms)
SessionTicks == 1

----------------------------------------------------------------------------
(* Program constants *)

UPDATE_MS == 100
INITIAL_VISION_DELAY_MS == 200
FIRST_VISION_DELAY_MS == 500
DELAY_DISTRACTED_MS == 90
DELAY_FOCUS_MS == 180
BACKOFF_MS == 4000
GEMINI_INTERVAL_DISTRACTED_MS == 100
GEMINI_INTERVAL_FOCUS_MS == 180
SMOOTH_EYES_CLOSED_MS == 1200
SMOOTH_NO_FACE_MS == 400
SMOOTH_OTHER_MS == 250
SMOOTH_RECOVERY_MS == 200
BASE_SCORE == 10000
FULL_HEALTH == 10000
HEALTH_DECAY == 50
HEALTH_RECOVERY == 5

\* granularity of the model's clock
TimeStep == UPDATE_MS
\* SESSION_DURATION_MINUTES * 60 * 1000, scaled to SessionTicks tick periods
SESSION_DURATION_MS == SessionTicks * UPDATE_MS

BOT_NAMES == <<"bot-0">>
Labels == {"NONE", "PHONE", "NO_FACE", "EYES_CLOSED", "TALKING", "EATING"}

Min(a, b) == IF a < b THEN a ELSE b
Max(a, b) == IF a > b THEN a ELSE b

RECURSIVE Fact(_)
Fact(n) == IF n <= 1 THEN 1 ELSE n * Fact(n - 1)

\* quanta per stake unit: divisible by the ticks of a session and by every
\* possible number of winners
MoneyScale == SessionTicks * Fact(1 + Len(BOT_NAMES))

----------------------------------------------------------------------------
(* Settlement *)

RECURSIVE SumSeq(_)
SumSeq(s) == IF s = << >> THEN 0 ELSE Head(s) + SumSeq(Tail(s))

\* variant: a player without a recorded penalty is charged a quantum
PenaltyOfMissing(penaltyByPlayer, id) == IF id \in DOMAIN penaltyByPlayer THEN penaltyByPlayer[id] ELSE 1

\* penaltyByPlayer[p.id] || 0
PenaltyOf(penaltyByPlayer, id) == IF id \in DOMAIN penaltyByPlayer THEN penaltyByPlayer[id] ELSE 0

\* Math.max(...finalPlayers.map(p => p.flowScore))
TopScore(finalPlayers) == CHOOSE m \in {finalPlayers[i].flowScore : i \in DOMAIN finalPlayers} : \A i \in DOMAIN finalPlayers : finalPlayers[i].flowScore <= m

\* finalPlayers.filter(p => p.flowScore === topScore)
Winners(finalPlayers) == SelectSeq(finalPlayers, LAMBDA p : p.flowScore = TopScore(finalPlayers))

\* variant: the recorded penalty is taken as lost without the cap at the stake
LostUnclamped(perPlayerStake, penaltyByPlayer, id) == PenaltyOf(penaltyByPlayer, id)

\* Math.min(perPlayerStake, penaltyByPlayer[p.id] || 0)
Lost(perPlayerStake, penaltyByPlayer, id) == Min(perPlayerStake, PenaltyOf(penaltyByPlayer, id))

\* variant: the pool collects the penalties of the players below the top score only
TotalPenaltyPoolLosers(finalPlayers, perPlayerStake, penaltyByPlayer) == SumSeq([i \in DOMAIN finalPlayers |-> IF finalPlayers[i].flowScore = TopScore(finalPlayers) THEN 0 ELSE Lost(perPlayerStake, penaltyByPlayer, finalPlayers[i].id)])

TotalPenaltyPool(finalPlayers, perPlayerStake, penaltyByPlayer) == SumSeq([i \in DOMAIN finalPlayers |-> Lost(perPlayerStake, penaltyByPlayer, finalPlayers[i].id)])

\* variant: every winner is paid the whole pool
BonusPerWinnerWhole(finalPlayers, perPlayerStake, penaltyByPlayer) == IF Len(Winners(finalPlayers)) > 0 THEN TotalPenaltyPool(finalPlayers, perPlayerStake, penaltyByPlayer) ELSE 0

BonusPerWinner(finalPlayers, perPlayerStake, penaltyByPlayer) == IF Len(Winners(finalPlayers)) > 0 THEN TotalPenaltyPool(finalPlayers, perPlayerStake, penaltyByPlayer) \div Len(Winners(finalPlayers)) ELSE 0

\* winners.find(w => w.id === p.id) ? bonusPerWinner : 0
BonusOf(finalPlayers, perPlayerStake, penaltyByPlayer, id) == IF \E i \in DOMAIN Winners(finalPlayers) : Winners(finalPlayers)[i].id = id THEN BonusPerWinner(finalPlayers, perPlayerStake, penaltyByPlayer) ELSE 0

\* base = Math.max(0, perPlayerStake - lost)
BaseOf(perPlayerStake, penaltyByPlayer, id) == Max(0, perPlayerStake - Lost(perPlayerStake, penaltyByPlayer, id))

\* variant: the distribution has an entry for every id of the penalty record as well
computePayoutsSeeded(finalPlayers, perPlayerStake, penaltyByPlayer) == [id \in {finalPlayers[i].id : i \in DOMAIN finalPlayers} \cup DOMAIN penaltyByPlayer |-> BaseOf(perPlayerStake, penaltyByPlayer, id) + BonusOf(finalPlayers, perPlayerStake, penaltyByPlayer, id)]

\* the distribution the loop builds: one entry per id, the empty record for no players
computePayoutsFromPenalties(finalPlayers, perPlayerStake, penaltyByPlayer) == [id \in {finalPlayers[i].id : i \in DOMAIN finalPlayers} |-> BaseOf(perPlayerStake, penaltyByPlayer, id) + BonusOf(finalPlayers, perPlayerStake, penaltyByPlayer, id)]

----------------------------------------------------------------------------
(* Players *)

\* variant: a user who has played before keeps the record of the session before
initializeSelfKept == IF Len(players) > 0 THEN players[1] ELSE [id |-> "self", isSelf |-> TRUE, health |-> FULL_HEALTH, flowScore |-> BASE_SCORE, status |-> "FOCUS"]

initializeSelf == [id |-> "self", isSelf |-> TRUE, health |-> FULL_HEALTH, flowScore |-> BASE_SCORE, status |-> "FOCUS"]

initializeBots == [idx \in DOMAIN BOT_NAMES |-> [id |-> BOT_NAMES[idx], isSelf |-> FALSE, health |-> FULL_HEALTH, flowScore |-> BASE_SCORE, status |-> "FOCUS"]]

\* variant: the chain reads the label the tick before showed, not the committed one
ActiveDistractionStale(isTabFocused) == IF forcedDistraction # "NONE" THEN forcedDistraction ELSE IF selfBiometrics # "NONE" THEN selfBiometrics ELSE IF ~isTabFocused THEN "NO_FACE" ELSE "NONE"

\* variant: the committed label comes before the developer override
ActiveDistractionLocalFirst(isTabFocused) == IF currentDistraction # "NONE" THEN currentDistraction ELSE IF forcedDistraction # "NONE" THEN forcedDistraction ELSE IF ~isTabFocused THEN "NO_FACE" ELSE "NONE"

\* the priority chain of simulateBiometrics
ActiveDistraction(isTabFocused) == IF forcedDistraction # "NONE" THEN forcedDistraction ELSE IF currentDistraction # "NONE" THEN currentDistraction ELSE IF ~isTabFocused THEN "NO_FACE" ELSE "NONE"

\* the switch of simulateBiometrics, in tenths
FlowDelta(activeDistraction) == CASE activeDistraction = "PHONE" -> -15 [] activeDistraction = "EATING" -> -5 [] activeDistraction = "TALKING" -> -8 [] activeDistraction = "EYES_CLOSED" -> -10 [] activeDistraction = "NO_FACE" -> -20 [] OTHER -> 1

simulateBiometrics(isTabFocused) == [distractionType |-> ActiveDistraction(isTabFocused), flowScoreDelta |-> FlowDelta(ActiveDistraction(isTabFocused))]

\* variant: health is capped at 100 only
ClampAbove(h) == Min(FULL_HEALTH, h)

\* Math.min(100, Math.max(0, ...))
Clamp(h) == Min(FULL_HEALTH, Max(0, h))

\* the isSelf branch of the setPlayers updater
TickSelf(p, bio) == [p EXCEPT !.health = Clamp(p.health + (IF bio.flowScoreDelta < 0 THEN -HEALTH_DECAY ELSE HEALTH_RECOVERY)), !.flowScore = p.flowScore + bio.flowScoreDelta, !.status = IF bio.distractionType = "NONE" THEN "FOCUS" ELSE bio.distractionType]

\* what the bot's two Math.random() draws can give: keep the status, or one of five
BotRolls == {"KEEP", "PHONE", "TALKING", "EATING", "NO_FACE", "FOCUS"}

BotStatus(p, roll) == IF roll = "KEEP" THEN p.status ELSE roll

\* variant: a bot on the phone loses what closed eyes cost the user
BotDeltaLenient(status) == CASE status = "PHONE" -> -10 [] status = "TALKING" -> -8 [] status = "EATING" -> -5 [] status = "NO_FACE" -> -20 [] OTHER -> 1

\* the chain of ifs on currentStatus, in tenths
BotDelta(status) == CASE status = "PHONE" -> -15 [] status = "TALKING" -> -8 [] status = "EATING" -> -5 [] status = "NO_FACE" -> -20 [] OTHER -> 1

\* the bot branch of the setPlayers updater
TickBot(p, roll) == [p EXCEPT !.flowScore = p.flowScore + BotDelta(BotStatus(p, roll)), !.health = Clamp(p.health + (IF BotDelta(BotStatus(p, roll)) < 0 THEN -HEALTH_DECAY ELSE HEALTH_RECOVERY)), !.status = BotStatus(p, roll)]

\* penaltyPerMs * UPDATE_MS
Increment == (stakeAmount * UPDATE_MS) \div SESSION_DURATION_MS

\* variant: the updater adds the increment without the cap at the stake
NextPenaltiesUnclamped(prev, newPlayers) == [id \in (DOMAIN prev) \cup {newPlayers[i].id : i \in DOMAIN newPlayers} |-> IF \E i \in DOMAIN newPlayers : newPlayers[i].id = id /\ newPlayers[i].status # "FOCUS" THEN PenaltyOf(prev, id) + Increment ELSE PenaltyOf(prev, id)]

\* variant: the updater reads the statuses of the tick before
NextPenaltiesStale(prev, newPlayers) == [id \in (DOMAIN prev) \cup {newPlayers[i].id : i \in DOMAIN newPlayers} |-> IF \E i \in DOMAIN players : players[i].id = id /\ players[i].status # "FOCUS" THEN Min(stakeAmount, PenaltyOf(prev, id) + Increment) ELSE PenaltyOf(prev, id)]

\* variant: a neutral tick gives an increment back
NextPenaltiesRefund(prev, newPlayers) == [id \in (DOMAIN prev) \cup {newPlayers[i].id : i \in DOMAIN newPlayers} |-> IF \E i \in DOMAIN newPlayers : newPlayers[i].id = id /\ newPlayers[i].status # "FOCUS" THEN Min(stakeAmount, PenaltyOf(prev, id) + Increment) ELSE Max(0, PenaltyOf(prev, id) - Increment)]

\* the setPenalties updater, over the ids of distractedMap
NextPenalties(prev, newPlayers) == [id \in (DOMAIN prev) \cup {newPlayers[i].id : i \in DOMAIN newPlayers} |-> IF \E i \in DOMAIN newPlayers : newPlayers[i].id = id /\ newPlayers[i].status # "FOCUS" THEN Min(stakeAmount, PenaltyOf(prev, id) + Increment) ELSE PenaltyOf(prev, id)]

----------------------------------------------------------------------------
(* Oracle adapter and signal smoother *)

\* what the model's structured response can be
OracleResponses == [ok : {TRUE}, faceVisible : BOOLEAN, headOrientation : {"FACING_SCREEN", "LOOKING_DOWN", "LOOKING_AWAY", "ABSENT"}, status : {"PHONE", "EATING", "EYES_CLOSED", "TALKING", "NO_FACE", "FOCUS"}]

\* a call that throws inside analyzeUserStatus (transport failure, unparsable text)
OracleFailure == [ok |-> FALSE]

OracleOutcomes == OracleResponses \cup {OracleFailure}

\* the label analyzeUserStatus resolves to
analyzeUserStatus(resp) == IF ~resp.ok THEN "NONE" ELSE IF resp.faceVisible = FALSE \/ resp.headOrientation = "ABSENT" \/ resp.status = "NO_FACE" THEN "NO_FACE" ELSE IF resp.status = "EYES_CLOSED" /\ resp.headOrientation = "LOOKING_DOWN" THEN "NONE" ELSE IF resp.status = "FOCUS" THEN "NONE" ELSE resp.status

\* how an oracle call can settle: whether it failed, and the label it resolves to
Settled == {[ok |-> resp.ok, label |-> analyzeUserStatus(resp)] : resp \in OracleOutcomes}

\* variant: the neutral label has no threshold of its own and waits the longest
getThresholdForNoRecovery(type) == CASE type = "EYES_CLOSED" -> SMOOTH_EYES_CLOSED_MS [] type = "NO_FACE" -> SMOOTH_NO_FACE_MS [] type \in {"PHONE", "EATING", "TALKING"} -> SMOOTH_OTHER_MS [] OTHER -> SMOOTH_EYES_CLOSED_MS

getThresholdFor(type) == CASE type = "EYES_CLOSED" -> SMOOTH_EYES_CLOSED_MS [] type = "NO_FACE" -> SMOOTH_NO_FACE_MS [] type \in {"PHONE", "EATING", "TALKING"} -> SMOOTH_OTHER_MS [] OTHER -> SMOOTH_RECOVERY_MS

\* variant: a new candidate does not restart the persistence timer
SmoothedAgeKept(detected) == candidateAge

\* candidateSinceMs after the first if of smoothLocalDetection, as an age
SmoothedAge(detected) == IF detected # candidateType THEN 0 ELSE candidateAge

\* the value smoothLocalDetection returns
smoothLocalDetection(detected) == IF currentDistraction = detected THEN currentDistraction ELSE IF SmoothedAge(detected) >= getThresholdFor(detected) THEN detected ELSE currentDistraction

\* the largest difference any comparison needs
AgeCap == SMOOTH_EYES_CLOSED_MS

Older(age, cap) == Min(cap, age + TimeStep)

\* Expecting backend to send { status, heartRate, gazeStability }: statuses by
\* the markers mapBackendDataToFrontend looks for in them
BackendStatuses == {{"PHONE"}, {"EAT"}, {"TALK"}, {"SLEEP"}, {"EYES"}, {"ABSENT"}, {"NO_FACE"}, {"ERROR"}, {"FOCUS"}, {}}

mapBackendDataToFrontend(status) == IF "PHONE" \in status THEN "PHONE" ELSE IF "EAT" \in status THEN "EATING" ELSE IF "TALK" \in status THEN "TALKING" ELSE IF "SLEEP" \in status \/ "EYES" \in status THEN "EYES_CLOSED" ELSE IF "ABSENT" \in status \/ "NO_FACE" \in status THEN "NO_FACE" ELSE "NONE"

----------------------------------------------------------------------------
(* The components beside the scoring pipeline, as they are constructed *)

\* the six keys of activationHistory
Regions == {"frontal", "parietal", "occipital", "temporal", "cerebellum", "limbic"}

\* the WebSocket clients of the visualisation server
Clients == {"c1", "c2"}

\* let latestPending = null
NoPayload == [seq |-> 0, kind |-> "null"]

\* a socket just connected to the relay
RelayInit == relay = [isProcessing |-> FALSE, latestPending |-> NoPayload, received |-> 0, lastFrame |-> 0, jobs |-> << >>]

\* new SignalProcessor(), no client served yet
ProcessorInit == processor = [activationHistory |-> [region \in Regions |-> << >>], calls |-> 0, own |-> [c \in Clients |-> [region \in Regions |-> << >>]], lastReply |-> [to |-> "none"]]

\* useRef<DistractionType>('NONE')
LegacyInit == legacy = [lastDetectionRef |-> "NONE", aiState |-> "NONE", lastResult |-> "none"]

SideInit == RelayInit /\ ProcessorInit /\ LegacyInit

----------------------------------------------------------------------------
(* Initial state: the component just mounted, the module just loaded *)

InitWith(remote) ==
    /\ gameState = "LOBBY"
    /\ stakeAmount = MoneyScale   \* useState(0.1): one stake unit
    /\ players = << >>
    /\ penalties = << >>
    /\ payouts = "null"
    /\ sessionAge = 0
    /\ ticks = 0
    /\ tickTimer = FALSE
    /\ tickAge = 0
    /\ selfBiometrics = "NONE"
    /\ forcedDistraction = "NONE"
    /\ currentDistraction = "NONE"
    /\ candidateType = "NONE"
    /\ candidateAge = AgeCap
    /\ isProcessingVision = FALSE
    /\ capturedProcessing = FALSE
    /\ isMounted = FALSE
    /\ timerLeft = -1
    /\ nextDelay = 0
    /\ inFlight = 0
    /\ orphans = 0
    /\ remoteEnabled = remote
    /\ socket = "none"
    /\ isRemoteActive = FALSE
    /\ geminiAge = GEMINI_INTERVAL_FOCUS_MS
    /\ sampleAge = SMOOTH_RECOVERY_MS
    /\ oscN = 0
    /\ oscPair = {}
    /\ oscStart = "NONE"
    /\ neutralAge = -1
    /\ tickGap = 0
    /\ tabFocused = TRUE
    /\ SideInit

\* the default build: VITE_REMOTE_BACKEND is not set
Init == InitWith(FALSE)

\* either build
LoopInit == \E remote \in BOOLEAN : InitWith(remote)

----------------------------------------------------------------------------
(* Session control *)

handleJoin ==
    /\ gameState = "LOBBY"
    /\ gameState' = "STAKING"
    /\ UNCHANGED <<stakeAmount, players, penalties, payouts, sessionAge, ticks, tickTimer, tickAge, selfBiometrics>>
    /\ UNCHANGED <<smootherVars, loopVars, remoteVars>>
    /\ UNCHANGED oscVars

\* the staking form's onChange: parseFloat(e.target.value) || 0
setStakeAmount(units) ==
    /\ gameState = "STAKING"
    /\ stakeAmount' = units * MoneyScale
    /\ UNCHANGED <<gameState, players, penalties, payouts, sessionAge, ticks, tickTimer, tickAge, selfBiometrics>>
    /\ UNCHANGED <<smootherVars, loopVars, remoteVars>>
    /\ UNCHANGED oscVars

\* variant: the guard is a flag created afresh with each effect
CapturedFresh == FALSE

\* the value of isProcessingVision the new effect's closure sees
CapturedAtMount == isProcessingVision

\* handleStartGame, then the effects of the render with gameState PLAYING
handleStartGame ==
    /\ gameState = "STAKING"
    /\ stakeAmount > 0
    /\ players' = <<initializeSelf>> \o initializeBots
    /\ penalties' = [id \in {players'[i].id : i \in DOMAIN players'} |-> 0]
    /\ sessionAge' = 0
    /\ gameState' = "PLAYING"
    /\ tickTimer' = TRUE
    /\ tickAge' = 0
    /\ isMounted' = TRUE
    /\ capturedProcessing' = CapturedAtMount
    /\ timerLeft' = FIRST_VISION_DELAY_MS
    /\ nextDelay' = FIRST_VISION_DELAY_MS
    /\ UNCHANGED <<stakeAmount, payouts, ticks, selfBiometrics, isProcessingVision, inFlight, orphans>>
    /\ UNCHANGED <<smootherVars, remoteVars>>
    /\ tickGap' = 0
    /\ UNCHANGED <<smoothHist, tabFocused, sideVars>>

\* a Dev: Force Distraction button of the arena
toggleSimulation(type) ==
    /\ gameState = "PLAYING"
    /\ forcedDistraction' = IF selfBiometrics = type THEN "NONE" ELSE type
    /\ UNCHANGED <<currentDistraction, candidateType, candidateAge>>
    /\ UNCHANGED <<appVars, loopVars, remoteVars>>
    /\ UNCHANGED oscVars

\* the user leaves the tab or comes back to it
visibilityChange ==
    /\ tabFocused' = ~tabFocused
    /\ UNCHANGED <<appVars, smootherVars, loopVars, remoteVars>>
    /\ UNCHANGED <<smoothHist, tickGap, sideVars>>

\* variant: the cleanup of the game-loop effect does not clear the interval
EffectCleanupKeepsInterval ==
    /\ tickTimer' = tickTimer
    /\ isMounted' = FALSE
    /\ timerLeft' = -1
    /\ orphans' = orphans + inFlight
    /\ inFlight' = 0
    /\ UNCHANGED <<isProcessingVision, capturedProcessing, nextDelay>>

\* the cleanups of the game-loop and vision effects
EffectCleanup ==
    /\ tickTimer' = FALSE
    /\ isMounted' = FALSE
    /\ timerLeft' = -1
    /\ orphans' = orphans + inFlight
    /\ inFlight' = 0
    /\ UNCHANGED <<isProcessingVision, capturedProcessing, nextDelay>>

\* variant: the minimum session duration is not enforced
MinSessionSkipped == TRUE

\* elapsedMs >= minSessionMs
MinSessionElapsed == sessionAge >= SESSION_DURATION_MS

\* handleEndSession once the minimum session has elapsed
handleEndSession ==
    /\ gameState = "PLAYING"
    /\ MinSessionElapsed
    /\ payouts' = computePayoutsFromPenalties(players, stakeAmount, penalties)
    /\ gameState' = "RESULTS"
    /\ EffectCleanup
    /\ UNCHANGED <<stakeAmount, players, penalties, sessionAge, ticks, tickAge, selfBiometrics>>
    /\ UNCHANGED <<smootherVars, remoteVars>>
    /\ UNCHANGED oscVars

\* handleEndSession before the minimum session has elapsed: the early return,
\* which only sets the error text
handleEndSessionEarly ==
    /\ gameState = "PLAYING"
    /\ ~MinSessionElapsed
    /\ UNCHANGED <<appVars, smootherVars, loopVars, remoteVars>>
    /\ UNCHANGED oscVars

\* the END SESSION handler of the arena's last render invoked once more
\* after it has moved the game to RESULTS
handleEndSessionAgain ==
    /\ gameState = "RESULTS"
    /\ payouts' = computePayoutsFromPenalties(players, stakeAmount, penalties)
    /\ gameState' = "RESULTS"
    /\ UNCHANGED <<stakeAmount, players, penalties, sessionAge, ticks, tickTimer, tickAge, selfBiometrics>>
    /\ UNCHANGED <<smootherVars, loopVars, remoteVars>>
    /\ UNCHANGED oscVars

\* handleForfeit once forfeitStake has resolved
handleForfeit ==
    /\ gameState = "PLAYING"
    /\ gameState' = "LOBBY"
    /\ EffectCleanup
    /\ UNCHANGED <<stakeAmount, players, penalties, payouts, sessionAge, ticks, tickAge, selfBiometrics>>
    /\ UNCHANGED <<smootherVars, remoteVars>>
    /\ UNCHANGED oscVars

\* RETURN TO LOBBY
returnToLobby ==
    /\ gameState = "RESULTS"
    /\ gameState' = "LOBBY"
    /\ UNCHANGED <<stakeAmount, players, penalties, payouts, sessionAge, ticks, tickTimer, tickAge, selfBiometrics>>
    /\ UNCHANGED <<smootherVars, loopVars, remoteVars>>
    /\ UNCHANGED oscVars

----------------------------------------------------------------------------
(* The game loop *)

NewPlayers(prevPlayers, bio, rolls) == [i \in DOMAIN prevPlayers |-> IF prevPlayers[i].isSelf THEN TickSelf(prevPlayers[i], bio) ELSE TickBot(prevPlayers[i], rolls[prevPlayers[i].id])]

\* one run of the setInterval callback
Tick(isTabFocused, rolls) ==
    /\ tickTimer
    /\ isTabFocused = tabFocused
    /\ tickAge >= UPDATE_MS
    /\ ticks < MaxTicks
    /\ selfBiometrics' = simulateBiometrics(isTabFocused).distractionType
    /\ players' = NewPlayers(players, simulateBiometrics(isTabFocused), rolls)
    /\ penalties' = NextPenalties(penalties, players')
    /\ ticks' = ticks + 1
    /\ tickAge' = 0
    /\ UNCHANGED <<gameState, stakeAmount, payouts, sessionAge, tickTimer>>
    /\ UNCHANGED <<smootherVars, loopVars, remoteVars>>
    /\ tickGap' = 0
    /\ UNCHANGED <<smoothHist, tabFocused, sideVars>>

----------------------------------------------------------------------------
(* The vision loop *)

\* variant: the next sample is scheduled at the same delay whatever the label
CadenceFlat(result) == DELAY_FOCUS_MS

\* the adaptive cadence of runVisionCheck
Cadence(result) == IF result # "NONE" THEN DELAY_DISTRACTED_MS ELSE DELAY_FOCUS_MS

\* the guard of runVisionCheck, read from the effect's closure
GuardBusy == capturedProcessing

\* the socket after processFrame's connect()
Connected(sock) == IF sock = "none" THEN "down" ELSE sock

\* isRemoteActive after the first block of processFrame
SentToSocket == remoteEnabled /\ socket = "up"

\* shouldRunGemini
ShouldRunGemini == ~SentToSocket \/ geminiAge >= (IF currentDistraction = "NONE" THEN GEMINI_INTERVAL_FOCUS_MS ELSE GEMINI_INTERVAL_DISTRACTED_MS)

\* the timeout fires and the guard is busy, or there is no frame to take
RunVisionIdle(frameReady) ==
    /\ timerLeft = 0
    /\ GuardBusy \/ ~frameReady
    /\ isProcessingVision' = IF GuardBusy THEN isProcessingVision ELSE FALSE
    /\ nextDelay' = INITIAL_VISION_DELAY_MS
    /\ timerLeft' = INITIAL_VISION_DELAY_MS
    /\ UNCHANGED <<capturedProcessing, isMounted, inFlight, orphans>>
    /\ UNCHANGED <<appVars, smootherVars, remoteVars>>
    /\ UNCHANGED oscVars

\* the timeout fires and drawing or encoding the frame throws
RunVisionThrow ==
    /\ timerLeft = 0
    /\ ~GuardBusy
    /\ isProcessingVision' = FALSE
    /\ nextDelay' = BACKOFF_MS
    /\ timerLeft' = BACKOFF_MS
    /\ UNCHANGED <<capturedProcessing, isMounted, inFlight, orphans>>
    /\ UNCHANGED <<appVars, smootherVars, remoteVars>>
    /\ UNCHANGED oscVars

\* the timeout fires, a frame is taken and processFrame calls the oracle
RunVisionSample ==
    /\ timerLeft = 0
    /\ ~GuardBusy
    /\ ShouldRunGemini
    /\ socket' = IF remoteEnabled THEN Connected(socket) ELSE socket
    /\ isRemoteActive' = SentToSocket
    /\ geminiAge' = 0
    /\ isProcessingVision' = TRUE
    /\ inFlight' = inFlight + 1
    /\ timerLeft' = -1
    /\ UNCHANGED <<capturedProcessing, isMounted, nextDelay, orphans, remoteEnabled>>
    /\ UNCHANGED <<appVars, smootherVars>>
    /\ UNCHANGED oscVars

\* the timeout fires, a frame is sent to the socket and processFrame returns
\* the current label without calling the oracle
RunVisionSkip ==
    /\ timerLeft = 0
    /\ ~GuardBusy
    /\ ~ShouldRunGemini
    /\ isRemoteActive' = SentToSocket
    /\ isProcessingVision' = FALSE
    /\ nextDelay' = Cadence(currentDistraction)
    /\ timerLeft' = Cadence(currentDistraction)
    /\ UNCHANGED <<capturedProcessing, isMounted, inFlight, orphans, remoteEnabled, socket, geminiAge>>
    /\ UNCHANGED <<appVars, smootherVars>>
    /\ UNCHANGED oscVars

\* the rest of processFrame once analyzeUserStatus has resolved to detected
SmoothAndStore(detected) ==
    /\ candidateType' = detected
    /\ candidateAge' = SmoothedAge(detected)
    /\ currentDistraction' = smoothLocalDetection(detected)
    /\ UNCHANGED forcedDistraction

\* variant: a sample that returns a distraction charges the user at once
OracleDoneCharges(outcome) ==
    /\ inFlight > 0
    /\ SmoothAndStore(outcome.label)
    /\ inFlight' = inFlight - 1
    /\ isProcessingVision' = FALSE
    /\ nextDelay' = Cadence(currentDistraction')
    /\ timerLeft' = IF isMounted THEN nextDelay' ELSE timerLeft
    /\ penalties' = IF currentDistraction' # "NONE" THEN NextPenalties(penalties, <<[id |-> "self", status |-> currentDistraction']>>) ELSE penalties
    /\ UNCHANGED <<capturedProcessing, isMounted, orphans>>
    /\ UNCHANGED <<gameState, stakeAmount, players, payouts, sessionAge, ticks, tickTimer, tickAge, selfBiometrics>>
    /\ UNCHANGED remoteVars
    /\ UNCHANGED oscVars

\* the oracle call of the mounted effect settles: the rest of processFrame,
\* then the rest of runVisionCheck
OracleDone(outcome) ==
    /\ inFlight > 0
    /\ SmoothAndStore(outcome.label)
    /\ inFlight' = inFlight - 1
    /\ isProcessingVision' = FALSE
    /\ nextDelay' = Cadence(currentDistraction')
    /\ timerLeft' = IF isMounted THEN nextDelay' ELSE timerLeft
    /\ UNCHANGED <<capturedProcessing, isMounted, orphans>>
    /\ UNCHANGED <<appVars, remoteVars>>
    /\ UNCHANGED oscVars

\* the oracle call of an effect that was cleaned up settles: isMounted is
\* false there and nothing is scheduled
OrphanDone(outcome) ==
    /\ orphans > 0
    /\ SmoothAndStore(outcome.label)
    /\ orphans' = orphans - 1
    /\ isProcessingVision' = FALSE
    /\ UNCHANGED <<capturedProcessing, isMounted, timerLeft, nextDelay, inFlight>>
    /\ UNCHANGED <<appVars, remoteVars>>
    /\ UNCHANGED oscVars

----------------------------------------------------------------------------
(* The remote backend *)

\* variant: a change of connection clears the smoother
SocketFlipResets ==
    /\ socket # "none"
    /\ socket' = IF socket = "up" THEN "down" ELSE "up"
    /\ currentDistraction' = "NONE"
    /\ candidateType' = "NONE"
    /\ candidateAge' = 0
    /\ UNCHANGED <<forcedDistraction, remoteEnabled, isRemoteActive, geminiAge>>
    /\ UNCHANGED <<appVars, loopVars>>
    /\ UNCHANGED oscVars

\* the socket connects or drops
SocketFlip ==
    /\ socket # "none"
    /\ socket' = IF socket = "up" THEN "down" ELSE "up"
    /\ UNCHANGED <<remoteEnabled, isRemoteActive, geminiAge>>
    /\ UNCHANGED <<appVars, smootherVars, loopVars>>
    /\ UNCHANGED oscVars

\* a biometric_update reaches the listener registered with onBiometricUpdate
onBiometricUpdate(status) ==
    /\ remoteEnabled
    /\ socket = "up"
    /\ currentDistraction' = mapBackendDataToFrontend(status)
    /\ isRemoteActive' = TRUE
    /\ UNCHANGED <<forcedDistraction, candidateType, candidateAge, remoteEnabled, socket, geminiAge>>
    /\ UNCHANGED <<appVars, loopVars>>
    /\ UNCHANGED oscVars

----------------------------------------------------------------------------
(* Time *)

\* the clocks of the App component move on by TimeStep
AppClocks ==
    /\ sessionAge' = Older(sessionAge, SESSION_DURATION_MS)
    /\ tickAge' = IF tickTimer THEN Older(tickAge, UPDATE_MS) ELSE tickAge

\* the clocks of the sensing pipeline move on by TimeStep
PipelineClocks ==
    /\ candidateAge' = Older(candidateAge, AgeCap)
    /\ geminiAge' = Older(geminiAge, GEMINI_INTERVAL_FOCUS_MS)
    /\ timerLeft' = IF timerLeft > 0 THEN Max(0, timerLeft - TimeStep) ELSE timerLeft

Frame ==
    /\ UNCHANGED <<gameState, stakeAmount, players, penalties, payouts, ticks, tickTimer, selfBiometrics>>
    /\ UNCHANGED <<forcedDistraction, currentDistraction, candidateType>>
    /\ UNCHANGED <<isProcessingVision, capturedProcessing, isMounted, nextDelay, inFlight, orphans>>
    /\ UNCHANGED <<remoteEnabled, socket, isRemoteActive>>
    /\ UNCHANGED oscVars

\* time passes
Advance ==
    /\ AppClocks
    /\ PipelineClocks
    /\ Frame

\* time passes, seen from the App component alone
GameAdvance ==
    /\ AppClocks
    /\ UNCHANGED <<candidateAge, geminiAge, timerLeft>>
    /\ Frame

----------------------------------------------------------------------------

\* The pipeline stores a committed label (updateLocalState, or the socket
\* listener).  The App component reads the label only in a tick, so the store
\* is taken when a tick is due: an earlier store is overwritten unseen.
updateLocalState(detectedType) ==
    /\ tickTimer
    /\ tickAge >= UPDATE_MS
    /\ currentDistraction' = detectedType
    /\ UNCHANGED <<forcedDistraction, candidateType, candidateAge>>
    /\ UNCHANGED <<appVars, loopVars, remoteVars>>
    /\ UNCHANGED oscVars

\* The App component with the sensing pipeline as its environment: the
\* committed label changes to any label at any time.  The tab stays in front
\* here: a hidden tab gives the game loop the label NO_FACE, which the label
\* writer gives it too.
Next ==
    \/ handleJoin
    \/ \E units \in {0, MaxStake} : setStakeAmount(units)
    \/ handleStartGame
    \/ handleEndSession
    \/ handleEndSessionEarly
    \/ handleEndSessionAgain
    \/ handleForfeit
    \/ returnToLobby
    \/ \E isTabFocused \in BOOLEAN, rolls \in [{BOT_NAMES[i] : i \in DOMAIN BOT_NAMES} -> BotRolls] : Tick(isTabFocused, rolls)
    \/ \E type \in Labels : updateLocalState(type)
    \/ GameAdvance

Spec == Init /\ [][Next]_vars

\* The sensing pipeline with the session control of the App component: the
\* game loop writes nothing the pipeline reads and is left out
LoopNext ==
    \/ handleJoin
    \/ handleStartGame
    \/ handleEndSession
    \/ handleForfeit
    \/ returnToLobby
    \/ \E frameReady \in BOOLEAN : RunVisionIdle(frameReady)
    \/ RunVisionThrow
    \/ RunVisionSample
    \/ RunVisionSkip
    \/ \E outcome \in Settled : OracleDone(outcome)
    \/ \E outcome \in Settled : OrphanDone(outcome)
    \/ SocketFlip
    \/ \E status \in BackendStatuses : onBiometricUpdate(status)
    \/ Advance

LoopSpec == LoopInit /\ [][LoopNext]_vars

----------------------------------------------------------------------------
(* The signal smoother on its own: the default build feeds it one oracle   *)
(* result after another, never sooner than the cadence of the vision loop. *)
(* The history variables follow the run of alternating raw labels.         *)

\* longest run of alternating raw labels the history counts
MaxOsc == 4

\* the smallest debounce threshold
MinThreshold == Min(Min(SMOOTH_EYES_CLOSED_MS, SMOOTH_NO_FACE_MS), Min(SMOOTH_OTHER_MS, SMOOTH_RECOVERY_MS))

\* the raw label differs from the one fed before it and comes sooner than every threshold
Alternates(detected) == oscN >= 1 /\ detected # candidateType /\ sampleAge < MinThreshold /\ (oscN = 1 \/ detected \in oscPair)

\* lines 188-193 of processFrame with the result of one more oracle call
feedSample(outcome) ==
    /\ sampleAge >= Cadence(currentDistraction)
    /\ SmoothAndStore(outcome.label)
    /\ sampleAge' = 0
    /\ oscN' = IF Alternates(outcome.label) THEN Min(MaxOsc, oscN + 1) ELSE IF outcome.label # candidateType THEN 1 ELSE 0
    /\ oscPair' = IF Alternates(outcome.label) THEN oscPair \cup {outcome.label} ELSE IF outcome.label # candidateType THEN {outcome.label} ELSE {}
    /\ oscStart' = IF Alternates(outcome.label) THEN oscStart ELSE currentDistraction
    /\ neutralAge' = IF outcome.label # "NONE" THEN -1 ELSE IF neutralAge < 0 THEN 0 ELSE neutralAge
    /\ UNCHANGED <<tickGap, tabFocused, sideVars>>
    /\ UNCHANGED <<appVars, loopVars, remoteVars>>

\* time passes between two samples
SmoothAdvance ==
    /\ candidateAge' = Older(candidateAge, AgeCap)
    /\ sampleAge' = Older(sampleAge, SMOOTH_RECOVERY_MS)
    /\ neutralAge' = IF neutralAge < 0 THEN neutralAge ELSE Older(neutralAge, SMOOTH_RECOVERY_MS)
    /\ UNCHANGED <<forcedDistraction, currentDistraction, candidateType, oscN, oscPair, oscStart, tickGap, tabFocused, sideVars>>
    /\ UNCHANGED <<appVars, loopVars, remoteVars>>

SmoothNext ==
    \/ \E outcome \in Settled : feedSample(outcome)
    \/ SmoothAdvance

SmoothSpec == Init /\ [][SmoothNext]_vars

----------------------------------------------------------------------------
(* Settlement on its own: computePayoutsFromPenalties applied to any final *)
(* player list, stake and penalty record.                                  *)

\* largest final player list
MaxPayoutPlayers == 3

PayoutIds == <<"self", "bot-0", "bot-1", "bot-2", "bot-3", "bot-4">>

\* quanta per half stake unit here: divisible by every possible number of winners
PayoutScale == Fact(MaxPayoutPlayers)

Finalists(n, scores) == [i \in 1..n |-> [id |-> PayoutIds[i], isSelf |-> (i = 1), health |-> FULL_HEALTH, flowScore |-> scores[i], status |-> "FOCUS"]]

\* recorded penalties: none, half a stake unit, the largest stake, and half a unit above it
PenaltyValues == {v * PayoutScale : v \in {0, 1, 2 * MaxStake, 2 * MaxStake + 1}}

\* penalty records: any ids of the list, and one that is not of the list
PenaltyRecords(n) == UNION {{f \in [known -> PenaltyValues] : "ghost" \in known => f["ghost"] = PayoutScale} : known \in SUBSET ({PayoutIds[i] : i \in 1..n} \cup {"ghost"})}

PayoutInit ==
    /\ gameState = "PLAYING"
    /\ \E units \in 0..MaxStake : stakeAmount = 2 * units * PayoutScale
    /\ \E n \in 0..MaxPayoutPlayers : \E scores \in [1..n -> {BASE_SCORE, BASE_SCORE + 1}] : players = Finalists(n, scores) /\ penalties \in PenaltyRecords(n)
    /\ payouts = "null"
    /\ sessionAge = SESSION_DURATION_MS
    /\ ticks = 0
    /\ tickTimer = FALSE
    /\ tickAge = 0
    /\ selfBiometrics = "NONE"
    /\ forcedDistraction = "NONE"
    /\ currentDistraction = "NONE"
    /\ candidateType = "NONE"
    /\ candidateAge = AgeCap
    /\ isProcessingVision = FALSE
    /\ capturedProcessing = FALSE
    /\ isMounted = FALSE
    /\ timerLeft = -1
    /\ nextDelay = 0
    /\ inFlight = 0
    /\ orphans = 0
    /\ remoteEnabled = FALSE
    /\ socket = "none"
    /\ isRemoteActive = FALSE
    /\ geminiAge = GEMINI_INTERVAL_FOCUS_MS
    /\ sampleAge = SMOOTH_RECOVERY_MS
    /\ oscN = 0
    /\ oscPair = {}
    /\ oscStart = "NONE"
    /\ neutralAge = -1
    /\ tickGap = 0
    /\ tabFocused = TRUE
    /\ SideInit

PayoutNext == handleEndSession

SpecPayout == PayoutInit /\ [][PayoutNext]_vars

----------------------------------------------------------------------------
(* Properties *)

\* ids of a player list
IdsOf(list) == {list[i].id : i \in DOMAIN list}

\* C1: for a non-empty final player list the payouts of the distribution add
\* up to the number of players times the stake: settlement neither creates
\* nor destroys money.
ThmC1 == (gameState = "RESULTS" /\ Len(players) > 0) => SumSeq([i \in DOMAIN players |-> payouts[players[i].id]]) = Len(players) * stakeAmount

\* a settled list with tied winners, a positive stake and a recorded penalty above the stake
WitC1 == gameState = "RESULTS" /\ stakeAmount > 0 /\ Len(players) >= 2 /\ Len(Winners(players)) >= 2 /\ \E id \in IdsOf(players) : PenaltyOf(penalties, id) > stakeAmount

\* C2: during a session, and at its settlement, every participant's
\* accumulated penalty is at least 0 and at most the stake.
ThmC2 == gameState \in {"PLAYING", "RESULTS"} => \A id \in DOMAIN penalties : 0 <= penalties[id] /\ penalties[id] <= stakeAmount

\* the user was distracted in two ticks of a session of SessionTicks ticks and
\* the penalty stands at the stake
WitC2 == gameState = "PLAYING" /\ stakeAmount > 0 /\ ticks > SessionTicks /\ players[1].health = FULL_HEALTH - 2 * HEALTH_DECAY /\ penalties["self"] = stakeAmount

CexC4 == [][currentDistraction' # currentDistraction => (candidateType' = currentDistraction' /\ candidateAge' >= getThresholdFor(currentDistraction'))]_vars

\* C5: an oracle call that fails leaves the committed label as it was.
CexC5 == [][(\E outcome \in Settled : ~outcome.ok /\ (OracleDone(outcome) \/ OrphanDone(outcome))) => currentDistraction' = currentDistraction]_vars

\* C6: after an oracle call that fails, the delay handed to the next run of
\* the vision loop is the backoff.
CexC6 == [][(\E outcome \in Settled : ~outcome.ok /\ OracleDone(outcome)) => nextDelay' = BACKOFF_MS]_vars

\* C7: at most one oracle call is in flight, counting the calls of effects
\* already cleaned up.
ThmC7 == inFlight + orphans <= 1

\* a session started while the call of the session before is in flight, and
\* its loop has run against the busy guard
WitC7 == gameState = "PLAYING" /\ isMounted /\ orphans = 1 /\ GuardBusy /\ nextDelay = INITIAL_VISION_DELAY_MS

\* C8: while a session is playing, a run of the vision loop finds the guard free.
CexC8 == gameState = "PLAYING" => ~GuardBusy

\* C9: once the session is in RESULTS no step changes a participant's score,
\* integrity or accumulated penalty.
ThmC9 == [][gameState = "RESULTS" => (players' = players /\ penalties' = penalties)]_vars

\* a settled session in which ticks ran and a penalty was charged
WitC9 == gameState = "RESULTS" /\ ticks >= 1 /\ ticks < MaxTicks /\ \E id \in DOMAIN penalties : penalties[id] > 0

\* C10: with no session playing no oracle call is started, and a call that
\* settles then writes neither the candidate nor the committed label.
CexC10 == [][gameState # "PLAYING" => (inFlight' + orphans' <= inFlight + orphans /\ ((\E outcome \in Settled : OrphanDone(outcome)) => (candidateType' = candidateType /\ currentDistraction' = currentDistraction)))]_vars

\* C11: while the session is in RESULTS the stored payouts are the ones
\* computePayoutsFromPenalties gives for the participant state as it stands, so
\* a repeated end-session request stores the same payout map again.
ThmC11 == gameState = "RESULTS" => payouts = computePayoutsFromPenalties(players, stakeAmount, penalties)

\* a settled session in which a winner was paid a bonus
WitC11 == gameState = "RESULTS" /\ \E id \in DOMAIN payouts : payouts[id] > stakeAmount

CexC13 == [][\A status \in BackendStatuses : onBiometricUpdate(status) => SmoothAndStore(mapBackendDataToFrontend(status))]_vars

\* C14: a biometric_update whose status is ERROR leaves the committed label
\* as it was.
CexC14 == [][onBiometricUpdate({"ERROR"}) => currentDistraction' = currentDistraction]_vars

\* C15: right after a neutral sample taken at least threshold(NONE) after the
\* first sample of an unbroken run of neutral samples, the committed label is
\* the neutral label.
ThmC15 == (sampleAge = 0 /\ neutralAge >= SMOOTH_RECOVERY_MS) => currentDistraction = "NONE"

\* such a sample has just turned a committed distraction into the neutral label
WitC15 == sampleAge = 0 /\ neutralAge >= SMOOTH_RECOVERY_MS /\ oscN = 0 /\ oscStart # "NONE" /\ currentDistraction = "NONE"

\* the players of the list no other player outscores
TopIndices == {i \in DOMAIN players : \A j \in DOMAIN players : players[j].flowScore <= players[i].flowScore}

\* min(stake, recorded penalty) of the player at index i
CappedPenalty(i) == Min(stakeAmount, PenaltyOf(penalties, players[i].id))

\* the capped penalties of all players of the list
PoolOfAll == SumSeq([i \in DOMAIN players |-> CappedPenalty(i)])

\* C16: with k >= 1 players sharing the top score, the bonus of each of them
\* (payout less the stake kept) is the penalty pool divided by k, and the
\* bonus of every other player is 0.
ThmC16 == (gameState = "RESULTS" /\ Len(players) > 0) => \A i \in DOMAIN players : (payouts[players[i].id] - (stakeAmount - CappedPenalty(i))) * Cardinality(TopIndices) = IF i \in TopIndices THEN PoolOfAll ELSE 0

\* two of three players tie at the top and share a pool the third paid into
WitC16 == gameState = "RESULTS" /\ Len(players) = 3 /\ Cardinality(TopIndices) = 2 /\ PoolOfAll > 0 /\ \E i \in DOMAIN players : i \notin TopIndices /\ CappedPenalty(i) > 0

\* C17: the pool is the sum over all players, winners included, of
\* min(stake, penalty), and a winner is paid max(0, stake - own penalty) plus
\* the bonus.
ThmC17 == (gameState = "RESULTS" /\ Len(players) > 0) => \A i \in TopIndices : Cardinality(TopIndices) * (payouts[players[i].id] - Max(0, stakeAmount - PenaltyOf(penalties, players[i].id))) = SumSeq([j \in DOMAIN players |-> Min(stakeAmount, PenaltyOf(penalties, players[j].id))])

\* a single winner who was penalised for part of the stake
WitC17 == gameState = "RESULTS" /\ Cardinality(TopIndices) = 1 /\ Len(players) >= 2 /\ \E i \in TopIndices : PenaltyOf(penalties, players[i].id) > 0 /\ PenaltyOf(penalties, players[i].id) < stakeAmount

----------------------------------------------------------------------------
(* The game loop of one session under timer jitter: the interval callback  *)
(* runs UPDATE_MS after the one before it or later, and tickGap measures   *)
(* the time that really passed.                                            *)

\* the longest gap between two ticks the history measures
TickGapCap == 2 * UPDATE_MS

\* time passes; a tick that is due may be late
JitterAdvance ==
    /\ AppClocks
    /\ tickGap' = IF tickTimer THEN Min(TickGapCap, tickGap + TimeStep) ELSE tickGap
    /\ UNCHANGED <<candidateAge, geminiAge, timerLeft>>
    /\ UNCHANGED <<gameState, stakeAmount, players, penalties, payouts, ticks, tickTimer, selfBiometrics>>
    /\ UNCHANGED <<forcedDistraction, currentDistraction, candidateType>>
    /\ UNCHANGED <<isProcessingVision, capturedProcessing, isMounted, nextDelay, inFlight, orphans>>
    /\ UNCHANGED <<remoteEnabled, socket, isRemoteActive>>
    /\ UNCHANGED <<smoothHist, tabFocused, sideVars>>

TickNext ==
    \/ handleJoin
    \/ handleStartGame
    \/ \E isTabFocused \in BOOLEAN, rolls \in [{BOT_NAMES[i] : i \in DOMAIN BOT_NAMES} -> BotRolls] : Tick(isTabFocused, rolls)
    \/ \E type \in Labels : updateLocalState(type)
    \/ JitterAdvance

TickSpec == Init /\ [][TickNext]_vars

CexC19 == [][ticks' = ticks + 1 => Increment * SESSION_DURATION_MS = stakeAmount * tickGap]_vars

\* C20: no step lowers or drops the penalty of any participant, except the
\* start of a session (STAKING to PLAYING), which sets every penalty to 0.
ThmC20 == [][(\A id \in DOMAIN penalties : id \in DOMAIN penalties' /\ penalties'[id] >= penalties[id]) \/ (gameState = "STAKING" /\ gameState' = "PLAYING" /\ \A id \in DOMAIN penalties' : penalties'[id] = 0)]_vars

\* the user was charged in one tick and found focused in the next; the penalty is still there
WitC20 == gameState = "PLAYING" /\ ticks >= 2 /\ players[1].status = "FOCUS" /\ penalties["self"] > 0

\* C21: a step in which the connection comes up or drops, or in which the
\* first block of processFrame switches the source (isRemoteActive), leaves
\* the committed label, the candidate label and the candidate's age as they were.
ThmC21 == [][(socket' # socket \/ (isRemoteActive' # isRemoteActive /\ timerLeft = 0 /\ timerLeft' # timerLeft)) => (currentDistraction' = currentDistraction /\ candidateType' = candidateType /\ candidateAge' = candidateAge)]_vars

\* the connection dropped while the remote source was active and a distraction was committed
WitC21 == remoteEnabled /\ socket = "down" /\ isRemoteActive /\ currentDistraction # "NONE" /\ candidateType # "NONE"

----------------------------------------------------------------------------
(* The game loop in the middle of a session, with the players' health      *)
(* anywhere a session can have brought it: health moves in steps of 0.05   *)
(* and 0.5, so every multiple of 0.05 from 0 to 100 is reached in time.    *)

\* health in hundredths: empty, half a decay above empty, one recovery below full, full
HealthValues == {0, HEALTH_DECAY \div 2, FULL_HEALTH - HEALTH_RECOVERY, FULL_HEALTH}

HealthInit ==
    /\ gameState = "PLAYING"
    /\ stakeAmount = MoneyScale
    /\ \E hs \in [1..(1 + Len(BOT_NAMES)) -> HealthValues] : players = [i \in 1..(1 + Len(BOT_NAMES)) |-> [(<<initializeSelf>> \o initializeBots)[i] EXCEPT !.health = hs[i]]]
    /\ penalties = [id \in {"self"} \cup {BOT_NAMES[i] : i \in DOMAIN BOT_NAMES} |-> 0]
    /\ payouts = "null"
    /\ sessionAge = SESSION_DURATION_MS
    /\ ticks = 0
    /\ tickTimer = TRUE
    /\ tickAge = 0
    /\ selfBiometrics = "NONE"
    /\ forcedDistraction = "NONE"
    /\ currentDistraction = "NONE"
    /\ candidateType = "NONE"
    /\ candidateAge = AgeCap
    /\ isProcessingVision = FALSE
    /\ capturedProcessing = FALSE
    /\ isMounted = TRUE
    /\ timerLeft = FIRST_VISION_DELAY_MS
    /\ nextDelay = FIRST_VISION_DELAY_MS
    /\ inFlight = 0
    /\ orphans = 0
    /\ remoteEnabled = FALSE
    /\ socket = "none"
    /\ isRemoteActive = FALSE
    /\ geminiAge = GEMINI_INTERVAL_FOCUS_MS
    /\ sampleAge = SMOOTH_RECOVERY_MS
    /\ oscN = 0
    /\ oscPair = {}
    /\ oscStart = "NONE"
    /\ neutralAge = -1
    /\ tickGap = 0
    /\ tabFocused = TRUE
    /\ SideInit

HealthNext ==
    \/ \E isTabFocused \in BOOLEAN, rolls \in [{BOT_NAMES[i] : i \in DOMAIN BOT_NAMES} -> BotRolls] : Tick(isTabFocused, rolls)
    \/ \E type \in Labels : updateLocalState(type)
    \/ JitterAdvance

HealthSpec == HealthInit /\ [][HealthNext]_vars

\* C22: after a tick every player's health is between 0 and 100; it is the
\* health before the tick less 0.5, not below 0, if the tick lowered the
\* player's score, and plus 0.05, not above 100, if it did not.
ThmC22 == [][ticks' = ticks + 1 => \A i \in DOMAIN players' : players'[i].health >= 0 /\ players'[i].health <= FULL_HEALTH /\ players'[i].health = IF players'[i].flowScore < players[i].flowScore THEN Max(0, players[i].health - HEALTH_DECAY) ELSE Min(FULL_HEALTH, players[i].health + HEALTH_RECOVERY)]_vars

\* a distracted user's health was cut off at 0 while the focused bot's stayed at 100
WitC22 == ticks >= 1 /\ players[1].flowScore < BASE_SCORE /\ players[1].health = 0 /\ players[2].flowScore > BASE_SCORE /\ players[2].health = FULL_HEALTH

\* the interval the local-oracle gate of processFrame asks for
GateInterval(committed) == IF committed = "NONE" THEN GEMINI_INTERVAL_FOCUS_MS ELSE GEMINI_INTERVAL_DISTRACTED_MS

\* C23: when processFrame returns a label, the delay set before the next
\* sample is DELAY_DISTRACTED_MS for a label other than NONE and
\* DELAY_FOCUS_MS for NONE, and the first is strictly the smaller; with the
\* remote source active the oracle is called exactly when the time since the
\* last call has reached the gate's interval, and the interval for a committed
\* distraction is strictly smaller than the one for NONE.
ThmC23 == [][(((RunVisionSkip \/ \E outcome \in Settled : OracleDone(outcome)) => (nextDelay' = (IF currentDistraction' = "NONE" THEN DELAY_FOCUS_MS ELSE DELAY_DISTRACTED_MS) /\ (isMounted => timerLeft' = nextDelay'))) /\ ((timerLeft = 0 /\ SentToSocket /\ inFlight' > inFlight) => geminiAge >= GateInterval(currentDistraction)) /\ (RunVisionSkip => geminiAge < GateInterval(currentDistraction))) /\ DELAY_DISTRACTED_MS < DELAY_FOCUS_MS /\ GEMINI_INTERVAL_DISTRACTED_MS < GEMINI_INTERVAL_FOCUS_MS]_vars

\* a sample has just returned a distraction and the next one is set sooner than after a neutral one
WitC23 == isMounted /\ currentDistraction # "NONE" /\ nextDelay = DELAY_DISTRACTED_MS /\ timerLeft = DELAY_DISTRACTED_MS /\ nextDelay < DELAY_FOCUS_MS

----------------------------------------------------------------------------
(* The label of a tick: one session of the game loop in which the          *)
(* developer override is toggled, the pipeline commits labels and the tab  *)
(* is hidden and shown between ticks.  The bots keep their status: their   *)
(* draws have no part in the user's label.                                 *)

PriorityNext ==
    \/ handleJoin
    \/ handleStartGame
    \/ \E type \in Labels \ {"NONE"} : toggleSimulation(type)
    \/ visibilityChange
    \/ \E type \in Labels : updateLocalState(type)
    \/ \E isTabFocused \in BOOLEAN, rolls \in [{BOT_NAMES[i] : i \in DOMAIN BOT_NAMES} -> {"KEEP"}] : Tick(isTabFocused, rolls)
    \/ GameAdvance

PrioritySpec == Init /\ [][PriorityNext]_vars

\* C24: a tick computes the user's label, score, health and penalty from the
\* committed label as it is when the tick starts (no override set): a
\* committed distraction is the tick's label and costs its delta, the decay
\* and the increment; a committed NONE with the tab in front earns the
\* neutral delta and the recovery and accrues nothing.  A step that changes
\* the committed label changes no player, no penalty and not the tick's label.
ThmC24 == [][((ticks' = ticks + 1 /\ forcedDistraction = "NONE" /\ currentDistraction # "NONE") => (selfBiometrics' = currentDistraction /\ players'[1].status = currentDistraction /\ players'[1].flowScore = players[1].flowScore + FlowDelta(currentDistraction) /\ players'[1].flowScore < players[1].flowScore /\ players'[1].health = Max(0, players[1].health - HEALTH_DECAY) /\ penalties'["self"] = Min(stakeAmount, penalties["self"] + Increment))) /\ ((ticks' = ticks + 1 /\ forcedDistraction = "NONE" /\ currentDistraction = "NONE" /\ tabFocused) => (selfBiometrics' = "NONE" /\ players'[1].status = "FOCUS" /\ players'[1].flowScore = players[1].flowScore + 1 /\ players'[1].health = Min(FULL_HEALTH, players[1].health + HEALTH_RECOVERY) /\ penalties'["self"] = penalties["self"])) /\ (currentDistraction' # currentDistraction => (players' = players /\ penalties' = penalties /\ selfBiometrics' = selfBiometrics /\ ticks' = ticks))]_vars

\* a tick charged the user for PHONE, and the commit of NONE that came after it has changed nothing of that
WitC24 == gameState = "PLAYING" /\ ticks >= 1 /\ forcedDistraction = "NONE" /\ currentDistraction = "NONE" /\ tabFocused /\ selfBiometrics = "PHONE" /\ players[1].status = "PHONE" /\ players[1].flowScore < BASE_SCORE /\ penalties["self"] > 0

\* C26: the label of a tick is the developer override if one is set,
\* otherwise the committed label if it is not NONE, otherwise NO_FACE if the
\* tab is hidden, otherwise NONE; the user's status and the sign of the score
\* change follow that label.
ThmC26 == [][ticks' = ticks + 1 => (selfBiometrics' = (IF forcedDistraction # "NONE" THEN forcedDistraction ELSE IF currentDistraction # "NONE" THEN currentDistraction ELSE IF ~tabFocused THEN "NO_FACE" ELSE "NONE") /\ players'[1].status = (IF selfBiometrics' = "NONE" THEN "FOCUS" ELSE selfBiometrics') /\ ((players'[1].flowScore < players[1].flowScore) <=> (selfBiometrics' # "NONE")))]_vars

\* a tick took the override over a different committed distraction
WitC26 == gameState = "PLAYING" /\ ticks >= 1 /\ forcedDistraction # "NONE" /\ currentDistraction # "NONE" /\ currentDistraction # forcedDistraction /\ selfBiometrics = forcedDistraction /\ players[1].status = forcedDistraction

\* a step of the sampling loop: the timeout firing, with or without an oracle
\* call, or an oracle call settling
SamplingStep == (\E frameReady \in BOOLEAN : RunVisionIdle(frameReady)) \/ RunVisionThrow \/ RunVisionSample \/ RunVisionSkip \/ (\E outcome \in Settled : OracleDone(outcome)) \/ (\E outcome \in Settled : OrphanDone(outcome))

\* C25: no step of the sampling loop changes the player list (scores, health)
\* or the penalty record; without the game loop they change only when a
\* session is started.
ThmC25 == [][(SamplingStep => (players' = players /\ penalties' = penalties)) /\ ((players' # players \/ penalties' # penalties) => (gameState = "STAKING" /\ gameState' = "PLAYING"))]_vars

\* samples have committed a distraction during a session and the user's score, health and penalty are as the session start left them
WitC25 == gameState = "PLAYING" /\ isMounted /\ currentDistraction # "NONE" /\ candidateType = currentDistraction /\ inFlight = 0 /\ players[1].flowScore = BASE_SCORE /\ players[1].health = FULL_HEALTH /\ penalties["self"] = 0

----------------------------------------------------------------------------
(* The sampling loop of one session of the default build, with the         *)
(* scheduling the browser guarantees: time passes and a timeout that has   *)
(* run down fires.  Nothing makes a pending generateContent call settle:   *)
(* analyzeUserStatus awaits it without a timeout, so OracleDone is not     *)
(* fair.                                                                   *)

HangNext ==
    \/ handleJoin
    \/ handleStartGame
    \/ \E frameReady \in BOOLEAN : RunVisionIdle(frameReady)
    \/ RunVisionThrow
    \/ RunVisionSample
    \/ \E outcome \in Settled : OracleDone(outcome)
    \/ Advance

HangFairness ==
    /\ WF_vars(Advance)
    /\ WF_vars((\E frameReady \in BOOLEAN : RunVisionIdle(frameReady)) \/ RunVisionThrow \/ RunVisionSample)

HangSpec == Init /\ [][HangNext]_vars /\ HangFairness

\* C27: an oracle call in flight is always followed by the scheduling of the
\* next sample.
CexC27 == [](inFlight > 0 => <>(inFlight = 0 /\ timerLeft >= 0))

\* C28: settling an empty player list gives the empty distribution, whatever
\* the stake and the penalty record.
ThmC28 == (gameState = "RESULTS" /\ Len(players) = 0) => DOMAIN payouts = {}

\* an empty list was settled with a positive stake and a penalty record that is not empty
WitC28 == gameState = "RESULTS" /\ Len(players) = 0 /\ stakeAmount > 0 /\ DOMAIN penalties # {} /\ DOMAIN payouts = {}

\* the penalty record cut down to the players and filled up with 0 for the players it leaves out
PenaltiesOfPlayers == [id \in IdsOf(players) |-> IF id \in DOMAIN penalties THEN penalties[id] ELSE 0]

\* C29: the distribution has exactly the players' ids, one entry for each, and
\* is the one the penalty record gives once its entries for others are
\* dropped and 0 is entered for every player it leaves out.
ThmC29 == gameState = "RESULTS" => (DOMAIN payouts = IdsOf(players) /\ Cardinality(DOMAIN payouts) = Len(players) /\ payouts = computePayoutsFromPenalties(players, stakeAmount, PenaltiesOfPlayers))

\* settled with a penalty recorded for an id that is no player and none recorded for one that is
WitC29 == gameState = "RESULTS" /\ stakeAmount > 0 /\ Len(players) >= 2 /\ (DOMAIN penalties) \ IdsOf(players) # {} /\ IdsOf(players) \ (DOMAIN penalties) # {} /\ (\E id \in DOMAIN penalties : id \in IdsOf(players) /\ penalties[id] > 0) /\ DOMAIN payouts = IdsOf(players)

\* C30: the step that starts a session leaves the user and every bot with
\* score 1000, health 100, status FOCUS and penalty 0, whatever the session
\* before left behind.
ThmC30 == [][(gameState = "STAKING" /\ gameState' = "PLAYING") => (Len(players') = 1 + Len(BOT_NAMES) /\ DOMAIN penalties' = IdsOf(players') /\ \A i \in DOMAIN players' : players'[i].flowScore = BASE_SCORE /\ players'[i].health = FULL_HEALTH /\ players'[i].status = "FOCUS" /\ penalties'[players'[i].id] = 0)]_vars

\* a session has just been started after one in which ticks changed the scores
WitC30 == gameState = "PLAYING" /\ ticks >= 1 /\ sessionAge = 0 /\ tickAge = 0 /\ selfBiometrics # "NONE" /\ (\A i \in DOMAIN players : players[i].flowScore = BASE_SCORE /\ players[i].health = FULL_HEALTH) /\ penalties["self"] = 0

\* C31: in a tick that leaves a bot and the user with the same status, both
\* get the same score delta, the same health change (one of -0.5 and +0.05,
\* cut off at 0 and 100) and the same penalty accrual (nothing, or one
\* increment, capped at the stake).
ThmC31 == [][ticks' = ticks + 1 => \A b, u \in DOMAIN players : (~players[b].isSelf /\ players[u].isSelf /\ players'[b].status = players'[u].status) => (/\ players'[b].flowScore - players[b].flowScore = players'[u].flowScore - players[u].flowScore /\ \E d \in {-HEALTH_DECAY, HEALTH_RECOVERY} : players'[b].health = Min(FULL_HEALTH, Max(0, players[b].health + d)) /\ players'[u].health = Min(FULL_HEALTH, Max(0, players[u].health + d)) /\ \E inc \in {0, (stakeAmount * UPDATE_MS) \div SESSION_DURATION_MS} : \A x \in {b, u} : penalties'[players[x].id] = Min(stakeAmount, penalties[players[x].id] + inc))]_vars

\* a tick left the user and a bot on the phone, both 1.5 points down and both charged
WitC31 == ticks = 1 /\ players[1].status = "PHONE" /\ players[2].status = "PHONE" /\ players[1].flowScore = BASE_SCORE - 15 /\ players[2].flowScore = BASE_SCORE - 15 /\ penalties["self"] > 0 /\ penalties["bot-0"] = penalties["self"]

----------------------------------------------------------------------------
(* The frame relay in CLI mode (src/backend/server.js), one client socket. *)
(* Node runs the handlers one at a time and the .finally of a settled      *)
(* promise before the next event, so a handler and the .finally it         *)
(* releases are one step.  How long the CLI runs is not modelled: while    *)
(* the timer is armed, the timeout and the child's events may come in      *)
(* either order.                                                           *)

\* stream_frame events explored per socket
MaxFrames == 3

\* what a stream_frame event can carry: a frame with data, an object without
\* data, or nothing (socket.emit('stream_frame') with no or a falsy argument)
PayloadKinds == {"frame", "nodata", "empty"}

\* JavaScript truthiness of latestPending
Truthy(payload) == payload.kind \notin {"null", "empty"}

\* the synchronous part of processFrame for a truthy payload: the early
\* return on missing data, or a spawn that starts the child or fails (the
\* error event is then queued) followed by a stdin write that goes through
\* or throws
StartOutcomes(payload) == IF payload.kind = "nodata" THEN {[seq |-> payload.seq, child |-> "none", timer |-> FALSE, emits |-> 1, settled |-> TRUE]} ELSE {[seq |-> payload.seq, child |-> c, timer |-> TRUE, emits |-> IF written THEN 0 ELSE 1, settled |-> ~written] : c \in {"running", "spawnfail"}, written \in BOOLEAN}

\* the .finally of handleNext once the promise of a call settles, from the
\* closure r the handler leaves; a call whose promise had settled before
\* releases nothing
Finally(r, wasSettled) == IF wasSettled THEN {r} ELSE IF Truthy(r.latestPending) THEN {[r EXCEPT !.jobs = Append(@, job), !.latestPending = NoPayload, !.isProcessing = ~job.settled] : job \in StartOutcomes(r.latestPending)} ELSE {[r EXCEPT !.isProcessing = FALSE]}

RelayFrame == UNCHANGED <<appVars, smootherVars, loopVars, remoteVars, smoothHist, tickGap, tabFocused, processor, legacy>>

\* the closure once the event is counted and latestPending = payload is done
Arrived(kind) == [relay EXCEPT !.received = @ + 1, !.lastFrame = IF kind = "empty" THEN @ ELSE relay.received + 1, !.latestPending = [seq |-> relay.received + 1, kind |-> kind]]

\* socket.on('stream_frame', ...), with handleNext when the socket is idle
streamFrame(kind) ==
    /\ relay.received < MaxFrames
    /\ relay' \in IF relay.isProcessing THEN {Arrived(kind)} ELSE IF kind = "empty" THEN {[Arrived(kind) EXCEPT !.isProcessing = TRUE]} ELSE {[Arrived(kind) EXCEPT !.jobs = Append(@, job), !.latestPending = NoPayload, !.isProcessing = ~job.settled] : job \in StartOutcomes(Arrived(kind).latestPending)}
    /\ RelayFrame

\* child.on('error', ...): the spawn failed
onChildError(j) ==
    /\ relay.jobs[j].child = "spawnfail"
    /\ relay' \in Finally([relay EXCEPT !.jobs[j] = [@ EXCEPT !.child = "errored", !.timer = FALSE, !.emits = @ + 1, !.settled = TRUE]], relay.jobs[j].settled)
    /\ RelayFrame

\* child.on('close', ...): the child ended by itself, after kill(), or after a failed spawn
onChildClose(j) ==
    /\ relay.jobs[j].child \in {"running", "killed", "errored"}
    /\ relay' \in Finally([relay EXCEPT !.jobs[j] = [@ EXCEPT !.child = "closed", !.timer = FALSE, !.emits = @ + 1, !.settled = TRUE]], relay.jobs[j].settled)
    /\ RelayFrame

\* the callback of the safety timeout
onTimeout(j) ==
    /\ relay.jobs[j].timer
    /\ relay.jobs[j].child = "running"
    /\ relay' \in Finally([relay EXCEPT !.jobs[j] = [@ EXCEPT !.child = "killed", !.timer = FALSE, !.emits = @ + 1, !.settled = TRUE]], relay.jobs[j].settled)
    /\ RelayFrame

RelayNext ==
    \/ \E kind \in PayloadKinds : streamFrame(kind)
    \/ \E j \in DOMAIN relay.jobs : onChildError(j)
    \/ \E j \in DOMAIN relay.jobs : onChildClose(j)
    \/ \E j \in DOMAIN relay.jobs : onTimeout(j)

RelaySpec == Init /\ [][RelayNext]_vars

\* C32: at most one processFrame call of a socket is unsettled at any time,
\* and when a call settles after frames that came in meanwhile, the next
\* call starts in the same step and is for the last of those frames.
CexC32 == [][Cardinality({j \in DOMAIN relay'.jobs : ~relay'.jobs[j].settled}) <= 1 /\ (((\E j \in DOMAIN relay.jobs : ~relay.jobs[j].settled /\ relay'.jobs[j].settled) /\ relay.lastFrame > relay.jobs[Len(relay.jobs)].seq) => (Len(relay'.jobs) = Len(relay.jobs) + 1 /\ relay'.jobs[Len(relay'.jobs)].seq = relay.lastFrame))]_vars

\* C35: no processFrame call emits more than one biometric_update, and a
\* call whose promise has settled has emitted exactly one.
CexC35 == \A j \in DOMAIN relay.jobs : relay.jobs[j].emits <= 1 /\ (relay.jobs[j].settled => relay.jobs[j].emits = 1)

\* C36: when no processFrame call is unsettled, isProcessing is false.
CexC36 == (\A j \in DOMAIN relay.jobs : relay.jobs[j].settled) => ~relay.isProcessing

----------------------------------------------------------------------------
(* The signal processor of the visualisation server (src/server).          *)
(* Activations are kept in tenths: every constant of the calculate         *)
(* functions is a multiple of 0.1.  A mean is kept as the sum of the       *)
(* window and its length; the rounding of floating point is not modelled.  *)

\* processSignals calls explored in one behaviour
MaxCalls == 11

\* this.smoothingWindow
smoothingWindow == 10

\* three signals a client can send: attentive and upright; tired and
\* slouching; under stress.  score is attention.score in tenths.
Engaged == [lookingUp |-> TRUE, lookingRight |-> FALSE, lookingLeft |-> FALSE, lookingDown |-> FALSE, raisedEyebrows |-> TRUE, smiling |-> FALSE, frowning |-> FALSE, score |-> 9, upright |-> TRUE, slouching |-> FALSE, bpm |-> 70, highRate |-> FALSE, dilation |-> "normal"]

Fatigued == [lookingUp |-> FALSE, lookingRight |-> FALSE, lookingLeft |-> FALSE, lookingDown |-> TRUE, raisedEyebrows |-> FALSE, smiling |-> FALSE, frowning |-> FALSE, score |-> 3, upright |-> FALSE, slouching |-> TRUE, bpm |-> 70, highRate |-> TRUE, dilation |-> "normal"]

Stressed == [lookingUp |-> FALSE, lookingRight |-> TRUE, lookingLeft |-> TRUE, lookingDown |-> FALSE, raisedEyebrows |-> FALSE, smiling |-> TRUE, frowning |-> TRUE, score |-> 8, upright |-> FALSE, slouching |-> FALSE, bpm |-> 120, highRate |-> FALSE, dilation |-> "large"]

SignalPresets == {Engaged, Fatigued, Stressed}

calculateFrontalActivation(signals) == Min(10, 3 + (IF signals.lookingUp THEN 4 ELSE 0) + (IF signals.raisedEyebrows THEN 3 ELSE 0) + (IF signals.score > 6 THEN 2 ELSE 0) + (IF signals.upright THEN 1 ELSE 0))

calculateParietalActivation(signals) == Max(0, Min(10, 3 + (IF signals.upright THEN 4 ELSE 0) + (IF signals.score > 5 /\ signals.bpm > 60 /\ signals.bpm < 90 THEN 3 ELSE 0) - (IF signals.slouching THEN 2 ELSE 0)))

calculateOccipitalActivation(signals) == Max(0, Min(10, 3 + (IF signals.lookingRight THEN 3 ELSE 0) - (IF signals.highRate THEN 3 ELSE 0) - (IF signals.lookingDown THEN 2 ELSE 0) + (IF signals.bpm < 60 THEN 1 ELSE 0)))

calculateTemporalActivation(signals) == Min(10, 3 + (IF signals.lookingLeft THEN 4 ELSE 0) + (IF signals.smiling THEN 2 ELSE 0))

calculateCerebellumActivation(signals) == Min(10, 2 + (IF signals.slouching THEN 2 ELSE 0) + (IF signals.score < 4 /\ signals.bpm < 60 THEN 1 ELSE 0))

calculateLimbicActivation(signals) == Max(0, Min(10, 2 + (IF signals.bpm > 110 THEN 5 ELSE 0) + (IF signals.dilation = "large" THEN 3 ELSE 0) + (IF signals.frowning THEN 4 ELSE 0) + (IF signals.score > 7 /\ signals.bpm > 100 THEN 2 ELSE 0) - (IF signals.bpm < 60 THEN 1 ELSE 0)))

\* const activations = { frontal: ..., ... } before the smoothing
Activations(signals) == [region \in Regions |-> CASE region = "frontal" -> calculateFrontalActivation(signals) [] region = "parietal" -> calculateParietalActivation(signals) [] region = "occipital" -> calculateOccipitalActivation(signals) [] region = "temporal" -> calculateTemporalActivation(signals) [] region = "cerebellum" -> calculateCerebellumActivation(signals) [] region = "limbic" -> calculateLimbicActivation(signals)]

\* variant: the history is never shifted
PushedUnbounded(history, value) == Append(history, value)

\* push, then shift once the history is longer than the window
Pushed(history, value) == IF Len(Append(history, value)) > smoothingWindow THEN Tail(Append(history, value)) ELSE Append(history, value)

\* the moving average of every region, as sum and length
Means(histories) == [region \in Regions |-> [sum |-> SumSeq(histories[region]), n |-> Len(histories[region])]]

\* activationHistory after processSignals(signals); the call returns its Means
processSignals(histories, signals) == [region \in Regions |-> Pushed(histories[region], Activations(signals)[region])]

\* ws.on('message', ...) with a message of type signals from one client
onMessage(client, signals) ==
    /\ processor.calls < MaxCalls
    /\ processor' = [activationHistory |-> processSignals(processor.activationHistory, signals), calls |-> processor.calls + 1, own |-> [processor.own EXCEPT ![client] = processSignals(@, signals)], lastReply |-> [to |-> client, activations |-> Means(processSignals(processor.activationHistory, signals)), signals |-> signals]]
    /\ UNCHANGED <<appVars, smootherVars, loopVars, remoteVars, smoothHist, tickGap, tabFocused, relay, legacy>>

\* one client connected, attentive or tired: the frontal activation is cut
\* off at 1 for the one signal and the occipital at 0 for the other
ProcessorNext == \E signals \in {Engaged, Fatigued} : onMessage("c1", signals)

ProcessorSpec == Init /\ [][ProcessorNext]_vars

\* C34: a processSignals call leaves in every region's history the raw
\* activation of the call at the end, before it the entries the history
\* had, without the oldest when there were 10 already, so at most 10
\* entries; the activation returned is the sum of those entries over their
\* number, and lies between 0 and 1.
ThmC34 == [][processor'.calls > processor.calls => \A region \in Regions : LET old == processor.activationHistory[region] new == processor'.activationHistory[region] returned == processor'.lastReply.activations[region] IN /\ Len(new) = Min(10, Len(old) + 1) /\ new[Len(new)] = Activations(processor'.lastReply.signals)[region] /\ \A i \in 1..(Len(new) - 1) : new[i] = old[i + Len(old) + 1 - Len(new)] /\ returned.n = Len(new) /\ returned.sum = SumSeq(new) /\ returned.sum >= 0 /\ returned.sum <= 10 * returned.n]_vars

\* more calls than the window holds: the history is full, the first entry
\* is gone, and the means lie strictly between the raw values 0.3 and 1
\* (frontal) and 0 and 0.3 (occipital)
WitC34 == processor.calls > 10 /\ Len(processor.activationHistory["occipital"]) = 10 /\ processor.lastReply.activations["occipital"].sum > 0 /\ processor.lastReply.activations["occipital"].sum < 30 /\ processor.lastReply.activations["frontal"].sum > 30 /\ processor.lastReply.activations["frontal"].sum < 100

----------------------------------------------------------------------------
(* The visualisation server with two clients connected: index.js makes one *)
(* SignalProcessor when the module loads and every connection uses it.     *)

\* messages explored with two clients connected
MaxShared == 3

SharedNext == \E client \in Clients, signals \in SignalPresets : processor.calls < MaxShared /\ onMessage(client, signals)

SharedSpec == Init /\ [][SharedNext]_vars

\* C39: the activations last sent to a client are the means over the window
\* of that client's own signals, whatever the other client has sent.
CexC39 == \A client \in Clients : processor.lastReply.to = client => processor.lastReply.activations = Means(processor.own[client])

\* C38: the step that starts a session (STAKING to PLAYING) leaves the
\* smoother's committed label and its candidate label neutral.
CexC38 == [][(gameState = "STAKING" /\ gameState' = "PLAYING") => (currentDistraction' = "NONE" /\ candidateType' = "NONE")]_vars

----------------------------------------------------------------------------
(* The vision loop of the earlier App (src/unnamed/part_007, lines         *)
(* 699-1311), which smooths the oracle's answers in the component itself.  *)

\* the delays of that version's adaptive polling
LEGACY_DELAY_DISTRACTED_MS == 150
LEGACY_DELAY_FOCUS_MS == 300

\* confirmedState of the SMOOTHING LOGIC block, from lastDetectionRef.current and the oracle's answer
confirmedState(prev, result) == IF result = "NONE" THEN "NONE" ELSE IF result \in {"PHONE", "EATING", "TALKING"} THEN result ELSE IF result = "EYES_CLOSED" THEN result ELSE IF prev = result THEN result ELSE prev

\* an earlier App in a session: sessionStartTime is age old, the vision
\* effect has just mounted, the game loop's interval is set or left out
SessionUnderWay(age, interval) ==
    /\ gameState = "PLAYING"
    /\ stakeAmount = MoneyScale
    /\ players = <<initializeSelf>> \o initializeBots
    /\ penalties = << >>
    /\ payouts = "null"
    /\ sessionAge = age
    /\ ticks = 0
    /\ tickTimer = interval
    /\ tickAge = 0
    /\ selfBiometrics = "NONE"
    /\ forcedDistraction = "NONE"
    /\ currentDistraction = "NONE"
    /\ candidateType = "NONE"
    /\ candidateAge = AgeCap
    /\ isProcessingVision = FALSE
    /\ capturedProcessing = FALSE
    /\ isMounted = TRUE
    /\ timerLeft = FIRST_VISION_DELAY_MS
    /\ nextDelay = FIRST_VISION_DELAY_MS
    /\ inFlight = 0
    /\ orphans = 0
    /\ remoteEnabled = FALSE
    /\ socket = "none"
    /\ isRemoteActive = FALSE
    /\ geminiAge = GEMINI_INTERVAL_FOCUS_MS
    /\ sampleAge = SMOOTH_RECOVERY_MS
    /\ oscN = 0
    /\ oscPair = {}
    /\ oscStart = "NONE"
    /\ neutralAge = -1
    /\ tickGap = 0
    /\ tabFocused = TRUE
    /\ SideInit

\* the vision loop alone, the session clock left at its cap
LegacyPlaying == SessionUnderWay(SESSION_DURATION_MS, FALSE)

LegacyFrame ==
    /\ UNCHANGED <<capturedProcessing, isMounted, orphans>>
    /\ UNCHANGED <<appVars, smootherVars, remoteVars>>
    /\ UNCHANGED <<smoothHist, tickGap, tabFocused, relay, processor>>

\* the timeout fires and the video is not ready: the default delay
legacyVisionIdle ==
    /\ timerLeft = 0
    /\ nextDelay' = INITIAL_VISION_DELAY_MS
    /\ timerLeft' = INITIAL_VISION_DELAY_MS
    /\ UNCHANGED <<isProcessingVision, inFlight, legacy>>
    /\ LegacyFrame

\* the timeout fires and drawing or encoding the frame throws: back off
legacyVisionThrow ==
    /\ timerLeft = 0
    /\ ~capturedProcessing
    /\ isProcessingVision' = FALSE
    /\ nextDelay' = BACKOFF_MS
    /\ timerLeft' = BACKOFF_MS
    /\ UNCHANGED <<inFlight, legacy>>
    /\ LegacyFrame

\* the timeout fires, a frame is taken and analyzeUserStatus is awaited
legacyVisionSample ==
    /\ timerLeft = 0
    /\ ~capturedProcessing
    /\ isProcessingVision' = TRUE
    /\ inFlight' = inFlight + 1
    /\ timerLeft' = -1
    /\ UNCHANGED <<nextDelay, legacy>>
    /\ LegacyFrame

\* analyzeUserStatus resolves: the smoothing block, the adaptive delay, the
\* finally and the next setTimeout
legacyVisionSettled(result) ==
    /\ inFlight > 0
    /\ legacy' = [lastDetectionRef |-> IF confirmedState(legacy.lastDetectionRef, result) = "NONE" THEN result ELSE confirmedState(legacy.lastDetectionRef, result), aiState |-> confirmedState(legacy.lastDetectionRef, result), lastResult |-> result]
    /\ inFlight' = inFlight - 1
    /\ isProcessingVision' = FALSE
    /\ nextDelay' = IF legacy'.aiState # "NONE" THEN LEGACY_DELAY_DISTRACTED_MS ELSE LEGACY_DELAY_FOCUS_MS
    /\ timerLeft' = nextDelay'
    /\ LegacyFrame

LegacyNext ==
    \/ legacyVisionIdle
    \/ legacyVisionThrow
    \/ legacyVisionSample
    \/ \E result \in Labels : legacyVisionSettled(result)
    \/ Advance

LegacySpec == LegacyPlaying /\ [][LegacyNext]_vars

\* C37: when the oracle answers NO_FACE and its answer before that was
\* NO_FACE too, the confirmed state after the second answer is NO_FACE.
CexC37 == [][(inFlight' < inFlight /\ legacy.lastResult = "NO_FACE" /\ legacy'.lastResult = "NO_FACE") => legacy'.aiState = "NO_FACE"]_vars

----------------------------------------------------------------------------
(* The session timer of the App at lines 1312-2095 of                      *)
(* src/unnamed/part_007: its game loop ends the session by itself once     *)
(* SESSION_DURATION_MINUTES have passed.  No manual end is taken here.     *)

\* handleStartGame has just run: setSessionStartTime(Date.now()), PLAYING
DeadlinePlaying == SessionUnderWay(0, TRUE)

\* one run of that version's setInterval callback: the players' update (it
\* keeps no penalties) and the session end check; leaving PLAYING runs the
\* cleanups of the effects
TickWithDeadline(isTabFocused, rolls) ==
    /\ tickTimer
    /\ isTabFocused = tabFocused
    /\ tickAge >= UPDATE_MS
    /\ ticks < MaxTicks
    /\ selfBiometrics' = simulateBiometrics(isTabFocused).distractionType
    /\ players' = NewPlayers(players, simulateBiometrics(isTabFocused), rolls)
    /\ ticks' = ticks + 1
    /\ tickAge' = 0
    /\ IF sessionAge >= SESSION_DURATION_MS THEN gameState' = "VERIFYING" /\ EffectCleanup ELSE UNCHANGED <<gameState, tickTimer, loopVars>>
    /\ UNCHANGED <<stakeAmount, penalties, payouts, sessionAge>>
    /\ UNCHANGED <<smootherVars, remoteVars>>
    /\ UNCHANGED oscVars

DeadlineNext ==
    \/ \E isTabFocused \in BOOLEAN, rolls \in [{BOT_NAMES[i] : i \in DOMAIN BOT_NAMES} -> BotRolls] : TickWithDeadline(isTabFocused, rolls)
    \/ \E type \in Labels : updateLocalState(type)
    \/ \E type \in Labels \ {"NONE"} : toggleSimulation(type)
    \/ visibilityChange
    \/ GameAdvance

\* time passes and an interval that is due fires
DeadlineFairness == WF_vars(GameAdvance) /\ WF_vars(\E isTabFocused \in BOOLEAN, rolls \in [{BOT_NAMES[i] : i \in DOMAIN BOT_NAMES} -> BotRolls] : TickWithDeadline(isTabFocused, rolls))

DeadlineSpec == DeadlinePlaying /\ [][DeadlineNext]_vars /\ DeadlineFairness

\* C33: a session that is not ended by hand reaches RESULTS in the end.
CexC33 == (gameState = "PLAYING") ~> (gameState = "RESULTS")

====
